---- MODULE Spec2Model ----
(***************************************************************************)
(* Model of the test-plan authoring tool:                                  *)
(*   - addBusinessDays / formatDateToInput and the timeline recomputation  *)
(*     of CreateTestPlanPage (src/src/CreateTestPlan.tsx),                 *)
(*   - the modal scroll-spy of CreateTestPlanPage (handleScroll,           *)
(*     scrollToSection, the delayed listener registration),                *)
(*   - the two scroll-progress mappers (TestExecutionDetailScreen in       *)
(*     src/src/CreateTestPlan.tsx and TestPlannerHome in src/planfile.jsx),*)
(*   - the work planner (src/sitecode.jsx): the task storage              *)
(*     (ensureSeedTasksForToday, WorkPlanerPage), the scenario-run storage *)
(*     and WorkPlannerFlashCard,                                           *)
(*   - the test plan folders (saveTestPlanToFolder, src/unnamed/part_000). *)
(*                                                                         *)
(* The specifications share the variables:                                 *)
(*   Spec        the CreateTestPlanPage (scroll-spy and form),             *)
(*   FormSpec    the form over several days and page refreshes,            *)
(*   MapperSpec  the two progress mappers,                                 *)
(*   ScrollSpec  the progress mappers and the modal scroll-spy,            *)
(*   TabSpec     the modal scroll-spy with scrollToSection called for any  *)
(*               id,                                                       *)
(*   AbdSpec     addBusinessDays applied to drawn inputs,                  *)
(*   RangeSpec   the progress mappers over out-of-range progress values,   *)
(*   LayoutSpec  the TestExecutionDetailScreen handler over drawn section  *)
(*               data,                                                     *)
(*   TaskSpec    the work planner's stored tasks,                          *)
(*   RunSpec     the stored scenario runs,                                 *)
(*   CardSpec    the WorkPlannerFlashCard,                                 *)
(*   FolderSpec  saveTestPlanToFolder applied to drawn inputs.             *)
(***************************************************************************)
EXTENDS Integers, Sequences, FiniteSets, TLC

VARIABLES
  \* ---- CreateTestPlanPage: scroll-spy ----
  mounted,            \* the page component is mounted
  open,               \* useState(false): the create-plan modal is open
  activeSection,      \* useState("meta"): highlighted outline tab
  isManualScrollRef,  \* useRef(false): the override flag
  timers,             \* pending setTimeout callbacks, in arming order
  attached,           \* handleScroll is registered on the mounted scroll root
  leaked,             \* handleScroll is still registered on a root of a closed modal
  scrollTop,          \* scrollTop of the modal scroll container
  ignoredClick,       \* id of the last scrollToSection call that returned early, "" if none
  \* ---- CreateTestPlanPage: form ----
  masterChecks,       \* phase -> [checked, days]
  reviewDays,
  timeline,           \* [start, end, dependencies]
  draft,              \* localStorage["create-test-plan-draft"]
  today,              \* the calendar date new Date() returns
  edits,              \* number of form edits made so far
  \* ---- progress mappers ----
  screen,             \* the scroll surface in use: "page", "detail" or "home"
  detailProgress,     \* scrollYProgress of TestExecutionDetailScreen (hundredths)
  detailActiveDay,
  detailActiveSection,
  detailRun,          \* active days seen while the reference sequence is fed
  detailSections,     \* the days arrays of the sections TestExecutionDetailScreen looks up
  homeProgress,       \* scrollYProgress of TestPlannerHome (hundredths)
  homeActiveDay,
  homeActiveSection,
  homeRun,
  handlerError,       \* the last call of a progress-change handler threw
  \* ---- addBusinessDays applied to drawn inputs ----
  abdStart,
  abdDays,
  abdResult,
  abdStartAfter,      \* the startDate object after the call
  abdResultAgain,     \* the result of a second call with the same arguments
  \* ---- work planner (src/sitecode.jsx) ----
  tasks,              \* localStorage["qahub.tasks.v1"]
  siteToday,          \* the calendar date in the planner's time zone
  plannerTasks,       \* WorkPlanerPage: useState<Task[]>([])
  plannerDayKey,      \* WorkPlanerPage: the memoized dayKey; <<>> while not mounted
  scenarioRuns,       \* localStorage["qahub.scenarioRuns.v1"]
  extraDefects,       \* localStorage["qahub.defects.v1"]: the defect ids, newest first
  clock,              \* Date.now(), counted in the run ids it has given
  \* ---- WorkPlannerFlashCard ----
  swElapsed,          \* useStopwatch: useState(0)
  swRunning,          \* useStopwatch: useState(false)
  cardResult,         \* result, useState(null): "NONE", "PASS" or "FAIL"
  showDefectForm,     \* useState(false)
  lastLoggedRunId,    \* useState(null)
  cardRuns,           \* scenario runs appended by the card since it mounted
  \* ---- test plan folders (testPlanStorage) ----
  folderStore,        \* localStorage["test-planner-folders"]: [present, folders]
  saveReturn,         \* what the last saveTestPlanToFolder call returned, "none" before
  lastSaveCall        \* the last saveTestPlanToFolder call: [made, replaced, wrote]

spyVars == <<mounted, open, activeSection, isManualScrollRef, timers, attached,
             leaked, scrollTop, ignoredClick>>
formVars == <<masterChecks, reviewDays, timeline, draft, today, edits>>
mapperVars == <<screen, detailProgress, detailActiveDay, detailActiveSection, detailRun,
                detailSections,
                homeProgress, homeActiveDay, homeActiveSection, homeRun, handlerError>>
abdVars == <<abdStart, abdDays, abdResult, abdStartAfter, abdResultAgain>>
runVars == <<scenarioRuns, extraDefects, clock>>
cardVars == <<swElapsed, swRunning, cardResult, showDefectForm, lastLoggedRunId, cardRuns>>
siteVars == <<tasks, siteToday, plannerTasks, plannerDayKey, runVars, cardVars>>
folderVars == <<folderStore, saveReturn, lastSaveCall>>
vars == <<spyVars, formVars, mapperVars, abdVars, siteVars, folderVars>>

----------------------------------------------------------------------------
(* Bounds                                                                  *)

FirstYear == 2024         \* first calendar year of the drawn dates
YearSpan == 2             \* number of calendar years of the drawn dates
MaxBusinessDays == 11     \* largest numberOfDays drawn in AbdSpec

----------------------------------------------------------------------------
(* Calendar dates: a JS Date restricted to its calendar day,               *)
(* [year, month (0..11, as getMonth), date (1..31, as getDate)].           *)

NoDate == [year |-> 0, month |-> 0, date |-> 0]

IsLeap(y) == (y % 4 = 0 /\ y % 100 # 0) \/ y % 400 = 0

DaysInMonth(y, m) ==
  IF m = 1 THEN (IF IsLeap(y) THEN 29 ELSE 28)
  ELSE IF m \in {3, 5, 8, 10} THEN 30 ELSE 31

Dates ==
  { [year |-> y, month |-> m, date |-> d] :
      y \in FirstYear..(FirstYear + YearSpan - 1), m \in 0..11, d \in 1..31 }
  \ { x \in [year : FirstYear..(FirstYear + YearSpan - 1), month : 0..11, date : 1..31] :
        x.date > DaysInMonth(x.year, x.month) }

\* result.setDate(result.getDate() + 1): the day after, with month and year overflow
SetDatePlusOne(dt) ==
  IF dt.date < DaysInMonth(dt.year, dt.month)
  THEN [dt EXCEPT !.date = dt.date + 1]
  ELSE IF dt.month < 11
       THEN [dt EXCEPT !.month = dt.month + 1, !.date = 1]
       ELSE [year |-> dt.year + 1, month |-> 0, date |-> 1]

\* leap years in 1..y
LeapsThrough(y) == (y \div 4) - (y \div 100) + (y \div 400)

\* days from 1 January 1970 to 1 January of year y
DaysBeforeYear(y) == 365 * (y - 1970) + LeapsThrough(y - 1) - LeapsThrough(1969)

RECURSIVE DaysBeforeMonth(_, _)
DaysBeforeMonth(y, m) ==
  IF m = 0 THEN 0 ELSE DaysBeforeMonth(y, m - 1) + DaysInMonth(y, m - 1)

\* days from 1 January 1970 (the Date epoch) to dt
DayNumber(dt) == DaysBeforeYear(dt.year) + DaysBeforeMonth(dt.year, dt.month) + dt.date - 1

\* Date.prototype.getDay: 0 = Sunday .. 6 = Saturday; 1 January 1970 was a Thursday
GetDay(dt) == (DayNumber(dt) + 4) % 7

\* variant: the loop counts every calendar day (no weekend test)
RECURSIVE AbdLoop_CountsWeekends(_, _, _)
AbdLoop_CountsWeekends(result, daysAdded, numberOfDays) ==
  IF daysAdded < numberOfDays
  THEN AbdLoop_CountsWeekends(SetDatePlusOne(result), daysAdded + 1, numberOfDays)
  ELSE result

\* addBusinessDays(startDate, numberOfDays): the while loop, one calendar day
\* per iteration; daysAdded counts the iterations that land on Monday..Friday
RECURSIVE AbdLoop(_, _, _)
AbdLoop(result, daysAdded, numberOfDays) ==
  IF daysAdded < numberOfDays
  THEN LET next == SetDatePlusOne(result)
           dayOfWeek == GetDay(next)
       IN  AbdLoop(next,
                   IF dayOfWeek # 0 /\ dayOfWeek # 6 THEN daysAdded + 1 ELSE daysAdded,
                   numberOfDays)
  ELSE result

\* variant: do { ... } while (daysAdded < numberOfDays)
addBusinessDays_DoWhile(startDate, numberOfDays) ==
  LET next == SetDatePlusOne(startDate)
  IN  AbdLoop(next, IF GetDay(next) # 0 /\ GetDay(next) # 6 THEN 1 ELSE 0, numberOfDays)

addBusinessDays(startDate, numberOfDays) == AbdLoop(startDate, 0, numberOfDays)

\* variant: const result = startDate, so setDate writes the caller's object
StartDateAfterCall_Aliased(startDate, numberOfDays) == AbdLoop(startDate, 0, numberOfDays)

\* the caller's startDate object after the call: const result = new Date(startDate)
\* is a copy, and setDate is called on the copy only
StartDateAfterCall(startDate, numberOfDays) == startDate

----------------------------------------------------------------------------
(* AbdSpec: addBusinessDays applied to inputs drawn from Dates and         *)
(* 0..MaxBusinessDays.                                                     *)

AbdInit ==
  /\ abdStart \in Dates
  /\ abdDays \in 0..MaxBusinessDays
  /\ abdResult = NoDate
  /\ abdStartAfter = NoDate
  /\ abdResultAgain = NoDate

AbdIdle ==
  /\ abdStart = NoDate
  /\ abdDays = 0
  /\ abdResult = NoDate
  /\ abdStartAfter = NoDate
  /\ abdResultAgain = NoDate

\* const endDate = addBusinessDays(startDate, totalDays)
CallAddBusinessDays ==
  /\ abdResult = NoDate
  /\ abdResult' = addBusinessDays(abdStart, abdDays)
  /\ abdStartAfter' = StartDateAfterCall(abdStart, abdDays)
  /\ UNCHANGED <<abdStart, abdDays, abdResultAgain>>
  /\ UNCHANGED <<spyVars, formVars, mapperVars, siteVars, folderVars>>

\* a second addBusinessDays(startDate, totalDays) with the same variables
CallAddBusinessDaysAgain ==
  /\ abdResult # NoDate
  /\ abdResultAgain = NoDate
  /\ abdResultAgain' = addBusinessDays(abdStartAfter, abdDays)
  /\ UNCHANGED <<abdStart, abdDays, abdResult, abdStartAfter>>
  /\ UNCHANGED <<spyVars, formVars, mapperVars, siteVars, folderVars>>

----------------------------------------------------------------------------
(* Progress mappers.  A progress value v in [0,1] is represented by the    *)
(* integer v * 100 (progressPercent).                                      *)

PercentScale == 100

ProgressValues == 0..PercentScale

\* progress values reported outside [0,1], in hundredths
MaxOvershoot == 20
AnyProgress == (0 - MaxOvershoot)..(PercentScale + MaxOvershoot)

\* min(1, max(0, v))
Clamp(v) == IF v < 0 THEN 0 ELSE IF v > PercentScale THEN PercentScale ELSE v

\* DETAIL_DAYS.length and DAYS.length
DetailNumDays == 6
HomeNumDays == 6

\* the days arrays of DETAIL_SECTIONS and of SECTIONS
DETAIL_SECTIONS == << <<0>>, <<1>>, <<2>>, <<3>>, <<4>>, <<5>> >>
SECTIONS == << <<0>>, <<1>>, <<2>>, <<3>>, <<4>>, <<5>> >>

Includes(arr, x) == \E k \in 1..Len(arr) : arr[k] = x

Min(a, b) == IF a <= b THEN a ELSE b

\* variant: progressPercent > dayPosition
RECURSIVE DetailScan_Strict(_, _)
DetailScan_Strict(i, progressPercent) ==
  IF i < 0 THEN 0
  ELSE IF progressPercent * (DetailNumDays - 1) > i * PercentScale THEN i
  ELSE DetailScan_Strict(i - 1, progressPercent)

\* variant: dayPosition = (i / numDays) * 100
RECURSIVE DetailScan_DivByNumDays(_, _)
DetailScan_DivByNumDays(i, progressPercent) ==
  IF i < 0 THEN 0
  ELSE IF progressPercent * DetailNumDays >= i * PercentScale THEN i
  ELSE DetailScan_DivByNumDays(i - 1, progressPercent)

\* for (i = numDays - 1; i >= 0; i--) { dayPosition = (i / (numDays - 1)) * 100;
\*   if (progressPercent >= dayPosition) { newActiveDay = i; break; } }
RECURSIVE DetailScan(_, _)
DetailScan(i, progressPercent) ==
  IF i < 0 THEN 0
  ELSE IF progressPercent * (DetailNumDays - 1) >= i * PercentScale THEN i
  ELSE DetailScan(i - 1, progressPercent)

\* variant: Math.floor(v * numDays), without a clamp
DetailNewActiveDay_FloorOfAll(progressPercent) ==
  (progressPercent * DetailNumDays) \div PercentScale

DetailNewActiveDay(progressPercent) == DetailScan(DetailNumDays - 1, progressPercent)

\* DETAIL_SECTIONS.findIndex(s => s.days.includes(day)), 0-based, -1 when absent
RECURSIVE FindIndexFrom(_, _, _)
FindIndexFrom(sections, k, day) ==
  IF k > Len(sections) THEN -1
  ELSE IF Includes(sections[k], day) THEN k - 1
  ELSE FindIndexFrom(sections, k + 1, day)

\* variant: s.days.includes(newActiveDay - 1)
DetailSectionIndex_OfPreviousDay(day) == FindIndexFrom(detailSections, 1, day - 1)

DetailSectionIndex(day) == FindIndexFrom(detailSections, 1, day)

\* variant: else setActiveSection(0)
DetailSectionAfter_ResetsToFirst(sectionIndex, current) ==
  IF sectionIndex # -1 THEN sectionIndex ELSE 0

\* if (sectionIndex !== -1) setActiveSection(sectionIndex): the section it leaves
DetailSectionAfter(sectionIndex, current) ==
  IF sectionIndex # -1 THEN sectionIndex ELSE current

\* section data to apply the lookup to: the screen's own, one whose sections
\* leave days 3 to 5 out, one whose sections share days and leave day 3 out,
\* and one without sections
SectionLayouts ==
  { DETAIL_SECTIONS,
    << <<0>>, <<1>>, <<2>> >>,
    << <<0, 1>>, <<1, 2>>, <<4, 5>> >>,
    << >> }

\* Math.min(SECTIONS.length - 1, Math.floor(v * SECTIONS.length))
HomeSectionIndex(progressPercent) ==
  Min(Len(SECTIONS) - 1, (progressPercent * Len(SECTIONS)) \div PercentScale)

\* sectionDays[Math.min(sectionDays.length - 1, Math.floor(localProgress))] with
\* localProgress = (v * SECTIONS.length - sectionIndex) * sectionDays.length
HomeDayIndex(progressPercent) ==
  LET sectionIndex == HomeSectionIndex(progressPercent)
      sectionDays == SECTIONS[sectionIndex + 1]
      localFloor == ((progressPercent * Len(SECTIONS) - sectionIndex * PercentScale)
                       * Len(sectionDays)) \div PercentScale
  IN  sectionDays[Min(Len(sectionDays) - 1, localFloor) + 1]

\* the progress sequence 0.05, 0.25, 0.45, 0.65, 0.85, 0.99
ReferenceProgress == <<5, 25, 45, 65, 85, 99>>

\* the active days seen so far while ReferenceProgress is fed in order
RunAfter(run, v, day) ==
  IF Len(run) < Len(ReferenceProgress) /\ v = ReferenceProgress[Len(run) + 1]
  THEN Append(run, day)
  ELSE IF v = ReferenceProgress[1] THEN <<day>> ELSE <<>>

MapperFieldsInit ==
  /\ screen = "page"
  /\ detailProgress = 0
  /\ detailActiveDay = 0
  /\ detailActiveSection = 0
  /\ detailRun = <<>>
  /\ homeProgress = 0
  /\ homeActiveDay = 0
  /\ homeActiveSection = 0
  /\ homeRun = <<>>
  /\ handlerError = FALSE

MapperInit == MapperFieldsInit /\ detailSections = DETAIL_SECTIONS

\* TestExecutionDetailScreen: scrollYProgress.on("change", v => ...)
DetailProgressChange(v) ==
  LET newActiveDay == DetailNewActiveDay(v)
      sectionIndex == DetailSectionIndex(newActiveDay)
  IN  /\ screen = "detail"
      /\ v # detailProgress
      /\ detailProgress' = v
      /\ detailActiveDay' = newActiveDay
      /\ detailActiveSection' = DetailSectionAfter(sectionIndex, detailActiveSection)
      /\ detailRun' = RunAfter(detailRun, v, newActiveDay)
      /\ handlerError' = FALSE
      /\ UNCHANGED <<screen, homeProgress, homeActiveDay, homeActiveSection, homeRun,
                     detailSections>>
      /\ UNCHANGED <<spyVars, formVars, abdVars, siteVars, folderVars>>

\* TestPlannerHome: scrollYProgress.on("change", v => ...).  With a negative
\* sectionIndex, SECTIONS[sectionIndex] is undefined and reading its days
\* throws a TypeError, after setActiveSection(sectionIndex)
HomeProgressChange(v) ==
  /\ screen = "home"
  /\ v # homeProgress
  /\ homeProgress' = v
  /\ homeActiveSection' = HomeSectionIndex(v)
  /\ IF HomeSectionIndex(v) < 0
     THEN /\ handlerError' = TRUE
          /\ UNCHANGED <<homeActiveDay, homeRun>>
     ELSE /\ handlerError' = FALSE
          /\ homeActiveDay' = HomeDayIndex(v)
          /\ homeRun' = RunAfter(homeRun, v, HomeDayIndex(v))
  /\ UNCHANGED <<screen, detailProgress, detailActiveDay, detailActiveSection, detailRun,
                 detailSections>>
  /\ UNCHANGED <<spyVars, formVars, abdVars, siteVars, folderVars>>

Screens == {"page", "detail", "home"}

\* the user moves to another scroll surface; a progress-mapper screen that is
\* left unmounts, one that is entered mounts with its initial state
\* (useState(0), scroll container at the top).  The create-plan modal covers
\* the navigation, so the surface changes only while the modal is closed (here:
\* closed and with no callback pending).  The record of the reference run is
\* kept between the two mapper screens and cleared on the page.
SwitchScreen(target) ==
  /\ ~open /\ timers = <<>>
  /\ target # screen
  /\ screen' = target
  /\ detailProgress' = 0
  /\ detailActiveDay' = 0
  /\ detailActiveSection' = 0
  /\ homeProgress' = 0
  /\ homeActiveDay' = 0
  /\ homeActiveSection' = 0
  /\ detailRun' = IF target = "page" THEN <<>> ELSE detailRun
  /\ homeRun' = IF target = "page" THEN <<>> ELSE homeRun
  /\ handlerError' = FALSE
  /\ UNCHANGED detailSections
  /\ UNCHANGED <<spyVars, formVars, abdVars, siteVars, folderVars>>

----------------------------------------------------------------------------
(* CreateTestPlanPage: the form and the timeline recomputation.            *)
(* Text typed into an input is a sequence of one-character strings.        *)

DigitChars == <<"0", "1", "2", "3", "4", "5", "6", "7", "8", "9">>

IsDigit(c) == \E k \in 1..Len(DigitChars) : DigitChars[k] = c

DigitValue(c) == (CHOOSE k \in 1..Len(DigitChars) : DigitChars[k] = c) - 1

\* the value of the longest prefix of digits of s from position k on, after acc
RECURSIVE DigitsFrom(_, _, _)
DigitsFrom(s, k, acc) ==
  IF k > Len(s) \/ ~IsDigit(s[k]) THEN acc
  ELSE DigitsFrom(s, k + 1, 10 * acc + DigitValue(s[k]))

\* parseInt(s) / parseInt(s, 10): optional sign, then the leading digits; NaN
\* when no digit follows
ParseInt(s) ==
  LET signed == Len(s) >= 1 /\ s[1] \in {"-", "+"}
      first == IF signed THEN 2 ELSE 1
      magnitude == DigitsFrom(s, first, 0)
  IN  IF first > Len(s) \/ ~IsDigit(s[first]) THEN [isNaN |-> TRUE, value |-> 0]
      ELSE [isNaN |-> FALSE,
            value |-> IF signed /\ s[1] = "-" THEN 0 - magnitude ELSE magnitude]

\* variant: /^-?\d+$/.test(value)
AllDigits_OptionalSign(s) ==
  \/ Len(s) >= 1 /\ \A k \in 1..Len(s) : IsDigit(s[k])
  \/ Len(s) >= 2 /\ s[1] = "-" /\ \A k \in 2..Len(s) : IsDigit(s[k])

\* /^\d+$/.test(value)
AllDigits(s) == Len(s) >= 1 /\ \A k \in 1..Len(s) : IsDigit(s[k])

\* parseInt(...) || 0
ParseIntOrZero(s) == IF ParseInt(s).isNaN THEN 0 ELSE ParseInt(s).value

\* String(n) for an integer n >= 0
RECURSIVE NatToString(_)
NatToString(n) ==
  IF n < 10 THEN <<DigitChars[n + 1]>>
  ELSE NatToString(n \div 10) \o <<DigitChars[(n % 10) + 1]>>

\* s.padStart(2, '0')
PadStart2(s) == IF Len(s) < 2 THEN <<"0">> \o s ELSE s

\* formatDateToInput(date): `${year}-${month}-${day}`
formatDateToInput(dt) ==
  NatToString(dt.year) \o <<"-">> \o PadStart2(NatToString(dt.month + 1))
    \o <<"-">> \o PadStart2(NatToString(dt.date))

PhaseOrder == <<"unit", "functional", "regression", "load", "volume", "acceptance", "usability">>

PhaseNames == { PhaseOrder[k] : k \in 1..Len(PhaseOrder) }

\* useState of masterChecks
InitialMasterChecks ==
  [ph \in PhaseNames |->
     [checked |-> ph \in {"unit", "functional", "regression", "acceptance", "usability"},
      days |-> 0]]

InitialTimeline == [start |-> <<>>, end |-> <<>>, dependencies |-> <<>>]

\* variant: the days of every phase, checked or not
RECURSIVE SumCheckedDays_CountsUnchecked(_, _)
SumCheckedDays_CountsUnchecked(mc, k) ==
  IF k = 0 THEN 0
  ELSE SumCheckedDays_CountsUnchecked(mc, k - 1) + mc[PhaseOrder[k]].days

\* Object.values(masterChecks).reduce((sum, phase) => sum + (phase.checked ? (phase.days || 0) : 0), 0)
RECURSIVE SumCheckedDays(_, _)
SumCheckedDays(mc, k) ==
  IF k = 0 THEN 0
  ELSE SumCheckedDays(mc, k - 1)
         + (IF mc[PhaseOrder[k]].checked THEN mc[PhaseOrder[k]].days ELSE 0)

\* totalDays = totalTestDays + (reviewDays || 0)
TotalDays(mc, rd) == SumCheckedDays(mc, Len(PhaseOrder)) + rd

\* variant: totalDays >= 0
RecomputeTimeline_AlsoAtZero(mc, rd, tl, now) ==
  IF TotalDays(mc, rd) >= 0
  THEN [tl EXCEPT !.start = formatDateToInput(now),
                  !.end = formatDateToInput(addBusinessDays(now, TotalDays(mc, rd)))]
  ELSE tl

\* variant: the end date computed from the phases' days alone
RecomputeTimeline_TestDaysOnly(mc, rd, tl, now) ==
  IF TotalDays(mc, rd) > 0
  THEN [tl EXCEPT !.start = formatDateToInput(now),
                  !.end = formatDateToInput(addBusinessDays(now, SumCheckedDays(mc, Len(PhaseOrder))))]
  ELSE tl

\* the effect on [masterChecks, reviewDays]: the timeline it leaves; startDate
\* is formatted after addBusinessDays(startDate, totalDays) has run
RecomputeTimeline(mc, rd, tl, now) ==
  IF TotalDays(mc, rd) > 0
  THEN [tl EXCEPT !.start = formatDateToInput(StartDateAfterCall(now, TotalDays(mc, rd))),
                  !.end = formatDateToInput(addBusinessDays(now, TotalDays(mc, rd)))]
  ELSE tl

\* values typed into the inputs
MaxDaysInput == 2         \* largest number typed into a phase's Days input
MaxReviewInput == 1       \* largest number typed into the Review days input
MaxEdits == 1             \* form edits per run of Spec
MaxFormEdits == 2         \* form edits per run of FormSpec
MaxTimers == 2            \* pending registration and override timers
TodaySpan == 3            \* `today` ranges over the first TodaySpan days of FirstYear

DaysInputs ==
  { <<>>, <<"a">>, <<"-", "1">> } \cup { NatToString(k) : k \in 0..MaxDaysInput }

ReviewInputs ==
  { <<>>, <<"-", "1">>, <<"1", ".", "5">> } \cup { NatToString(k) : k \in 0..MaxReviewInput }

DependencyInputs == { <<>>, <<"x">> }

\* the checklist rows the user edits: one that starts checked, one unchecked
EditedPhases == {"unit", "load"}

DateInputs == { <<>>, formatDateToInput([year |-> FirstYear, month |-> 11, date |-> 25]) }

FirstToday == [year |-> FirstYear, month |-> 0, date |-> 1]

TodayDates ==
  { d \in Dates : d.year = FirstYear /\ d.month = 0 /\ d.date <= TodaySpan }

----------------------------------------------------------------------------
(* CreateTestPlanPage: the modal scroll-spy.                               *)

OUTLINE_SECTIONS == <<"meta", "scope", "checklists", "schedule", "comments">>

OutlineIds == { OUTLINE_SECTIONS[k] : k \in 1..Len(OUTLINE_SECTIONS) }

\* layout of the modal's scroll container
SectionSpacing == 300     \* distance between the tops of consecutive sections
LastSectionHeight == 250  \* height of the last section
ClientHeight == 400       \* clientHeight of the scroll container
ScrollStep == 250         \* granularity of the scroll positions

\* top of section k inside the scrolled content
SectionTop(k) == (k - 1) * SectionSpacing

ScrollHeight == (Len(OUTLINE_SECTIONS) - 1) * SectionSpacing + LastSectionHeight

ScrollPositions == { p \in 0..(ScrollHeight - ClientHeight) : p % ScrollStep = 0 }

NearBottomThreshold == 100
SpyThresholdOffset == 160
RegisterDelay == 100
OverrideDelay == 1000

\* variant: the test without the 100 px threshold
NearBottom_Exact(top) == top + ClientHeight >= ScrollHeight

\* scrollTop + clientHeight >= scrollHeight - 100
NearBottom(top) == top + ClientHeight >= ScrollHeight - NearBottomThreshold

\* for (i = elements.length - 1; i >= 0; i--) if (rect.top <= threshold) ...;
\* falls back to elements[0].  rect.top - containerTop = SectionTop(i) - scrollTop
RECURSIVE SpyScan(_, _)
SpyScan(i, top) ==
  IF i < 1 THEN OUTLINE_SECTIONS[1]
  ELSE IF SectionTop(i) - top <= SpyThresholdOffset THEN OUTLINE_SECTIONS[i]
  ELSE SpyScan(i - 1, top)

\* variant: no isManualScrollRef test
handleScroll_IgnoresFlag(manual, top, current) ==
  IF NearBottom(top) THEN OUTLINE_SECTIONS[Len(OUTLINE_SECTIONS)]
  ELSE SpyScan(Len(OUTLINE_SECTIONS), top)

\* handleScroll: the activeSection it leaves
handleScroll(manual, top, current) ==
  IF manual THEN current
  ELSE IF NearBottom(top) THEN OUTLINE_SECTIONS[Len(OUTLINE_SECTIONS)]
  ELSE SpyScan(Len(OUTLINE_SECTIONS), top)

Timer(kind, delay) == [kind |-> kind, delay |-> delay]

\* a pending timer is due before every timer armed earlier with a longer delay
\* and after every timer armed earlier with the same or a shorter delay
CanFire(i) == \A j \in 1..(i - 1) : timers[j].delay > timers[i].delay

RemoveAt(seq, i) == SubSeq(seq, 1, i - 1) \o SubSeq(seq, i + 1, Len(seq))

RECURSIVE WithoutKind(_, _)
WithoutKind(seq, kind) ==
  IF seq = <<>> THEN <<>>
  ELSE IF Head(seq).kind = kind THEN WithoutKind(Tail(seq), kind)
  ELSE <<Head(seq)>> \o WithoutKind(Tail(seq), kind)

PendingOverrideTimers == { i \in 1..Len(timers) : timers[i].kind = "override" }

PendingRegisterTimers == { i \in 1..Len(timers) : timers[i].kind = "register" }

----------------------------------------------------------------------------
(* CreateTestPlanPage: state after the first render with empty storage.    *)

SpyInit ==
  /\ mounted = TRUE
  /\ open = FALSE
  /\ activeSection = "meta"
  /\ isManualScrollRef = FALSE
  /\ timers = <<>>
  /\ attached = FALSE
  /\ leaked = FALSE
  /\ scrollTop = 0
  /\ ignoredClick = ""

FormFieldsInit ==
  /\ masterChecks = InitialMasterChecks
  /\ reviewDays = 0
  /\ timeline = InitialTimeline
  /\ draft = <<>>
  /\ edits = 0

PageInit == SpyInit /\ FormFieldsInit /\ today = FirstToday

\* "Create new Test plan": setOpen(true); the scroll-spy effect arms the 100 ms
\* registration timer; the modal mounts a new scroll container
OpenModal ==
  /\ mounted /\ ~open
  /\ screen = "page"
  /\ open' = TRUE
  /\ timers' = Append(timers, Timer("register", RegisterDelay))
  /\ scrollTop' = 0
  /\ UNCHANGED <<mounted, activeSection, isManualScrollRef, attached, leaked, ignoredClick>>
  /\ UNCHANGED <<formVars, mapperVars, abdVars, siteVars, folderVars>>

\* variant: closing the modal also clears the override flag
CloseModal_ClearsFlag ==
  /\ mounted /\ open
  /\ open' = FALSE
  /\ timers' = WithoutKind(timers, "register")
  /\ leaked' = (leaked \/ attached)
  /\ attached' = FALSE
  /\ scrollTop' = 0
  /\ isManualScrollRef' = FALSE
  /\ UNCHANGED <<mounted, activeSection, ignoredClick>>
  /\ UNCHANGED <<formVars, mapperVars, abdVars, siteVars, folderVars>>

\* setOpen(false) (close button, Escape, Cancel): the effect cleanup is
\* clearTimeout(timer) only; the scroll container is unmounted with whatever
\* listener it carries
CloseModal ==
  /\ mounted /\ open
  /\ open' = FALSE
  /\ timers' = WithoutKind(timers, "register")
  /\ leaked' = (leaked \/ attached)
  /\ attached' = FALSE
  /\ scrollTop' = 0
  /\ UNCHANGED <<mounted, activeSection, isManualScrollRef, ignoredClick>>
  /\ UNCHANGED <<formVars, mapperVars, abdVars, siteVars, folderVars>>

\* the page component unmounts: the same cleanup runs
Unmount ==
  /\ mounted
  /\ mounted' = FALSE
  /\ timers' = WithoutKind(timers, "register")
  /\ leaked' = (leaked \/ attached)
  /\ attached' = FALSE
  /\ UNCHANGED <<open, activeSection, isManualScrollRef, scrollTop, ignoredClick>>
  /\ UNCHANGED <<formVars, mapperVars, abdVars, siteVars, folderVars>>

\* the 100 ms callback: handleScroll() once, then root.addEventListener
RegisterTimerFired(i) ==
  /\ i \in PendingRegisterTimers
  /\ CanFire(i)
  /\ timers' = RemoveAt(timers, i)
  /\ IF mounted /\ open
     THEN /\ activeSection' = handleScroll(isManualScrollRef, scrollTop, activeSection)
          /\ attached' = TRUE
     ELSE UNCHANGED <<activeSection, attached>>
  /\ UNCHANGED <<mounted, open, isManualScrollRef, leaked, scrollTop, ignoredClick>>
  /\ UNCHANGED <<formVars, mapperVars, abdVars, siteVars, folderVars>>

\* the scroll container scrolls to pos (user scroll or a frame of the smooth
\* scroll); the scroll event runs handleScroll when the listener is registered
ScrollEvent(pos) ==
  /\ mounted /\ open
  /\ pos # scrollTop
  /\ scrollTop' = pos
  /\ activeSection' = IF attached
                      THEN handleScroll(isManualScrollRef, pos, activeSection)
                      ELSE activeSection
  /\ UNCHANGED <<mounted, open, isManualScrollRef, timers, attached, leaked, ignoredClick>>
  /\ UNCHANGED <<formVars, mapperVars, abdVars, siteVars, folderVars>>

\* an id that no element of the page carries
MissingId == "appendix"

\* variant: if (!container) return, without the test of el
ElementAndContainer_ContainerOnly(id) == open

\* document.getElementById(id) and modalScrollRef.current are both there: the
\* sections and the scroll container are rendered while the modal is open
ElementAndContainer(id) == open /\ id \in OutlineIds

\* scrollToSection(id): click on an outline tab, or a call with another id or
\* while the modal is closed
scrollToSection(id) ==
  /\ mounted
  /\ IF ElementAndContainer(id)
     THEN /\ isManualScrollRef' = TRUE
          /\ activeSection' = id
          /\ timers' = Append(timers, Timer("override", OverrideDelay))
          /\ UNCHANGED ignoredClick
     ELSE /\ ignoredClick' = id
          /\ UNCHANGED <<isManualScrollRef, activeSection, timers>>
  /\ UNCHANGED <<mounted, open, attached, leaked, scrollTop>>
  /\ UNCHANGED <<formVars, mapperVars, abdVars, siteVars, folderVars>>

\* setTimeout(() => { isManualScrollRef.current = false; }, 1000)
OverrideTimerFired(i) ==
  /\ i \in PendingOverrideTimers
  /\ CanFire(i)
  /\ timers' = RemoveAt(timers, i)
  /\ isManualScrollRef' = FALSE
  /\ UNCHANGED <<mounted, open, activeSection, attached, leaked, scrollTop, ignoredClick>>
  /\ UNCHANGED <<formVars, mapperVars, abdVars, siteVars, folderVars>>

\* "Save draft": saveDraft(...) writes the form to storage;
\* localStorage.setItem may throw, then saveDraft returns false
handleSave(success) ==
  /\ mounted /\ open
  /\ draft' = IF success
              THEN << [masterChecks |-> masterChecks, reviewDays |-> reviewDays,
                       timeline |-> timeline] >>
              ELSE draft
  /\ UNCHANGED <<masterChecks, reviewDays, timeline, today, edits>>
  /\ UNCHANGED <<spyVars, mapperVars, abdVars, siteVars, folderVars>>

\* "Reset"
resetForm ==
  /\ mounted /\ open
  /\ timeline' = InitialTimeline
  /\ UNCHANGED <<masterChecks, reviewDays, draft, today, edits>>
  /\ UNCHANGED <<spyVars, mapperVars, abdVars, siteVars, folderVars>>

\* CheckboxRow onChange(!checked), then the timeline effect
ToggleCheck(ph) ==
  /\ mounted /\ open
  /\ masterChecks' = [masterChecks EXCEPT ![ph].checked = ~masterChecks[ph].checked]
  /\ timeline' = RecomputeTimeline(masterChecks', reviewDays, timeline, today)
  /\ edits' = edits + 1
  /\ UNCHANGED <<reviewDays, draft, today>>
  /\ UNCHANGED <<spyVars, mapperVars, abdVars, siteVars, folderVars>>

\* CheckboxRow.handleDaysChange(value) and onDaysChange, then the timeline effect
handleDaysChange(ph, value) ==
  /\ mounted /\ open
  /\ IF value = <<>> \/ AllDigits(value)
     THEN /\ masterChecks' = [masterChecks EXCEPT
                                ![ph].days = IF value = <<>> THEN 0 ELSE ParseInt(value).value]
          /\ timeline' = RecomputeTimeline(masterChecks', reviewDays, timeline, today)
     ELSE UNCHANGED <<masterChecks, timeline>>
  /\ edits' = edits + 1
  /\ UNCHANGED <<reviewDays, draft, today>>
  /\ UNCHANGED <<spyVars, mapperVars, abdVars, siteVars, folderVars>>

\* Review days onChange: setReviewDays(parseInt(e.target.value) || 0); the
\* timeline effect runs when the value changed
ReviewDaysChange(value) ==
  /\ mounted /\ open
  /\ reviewDays' = ParseIntOrZero(value)
  /\ timeline' = IF reviewDays' # reviewDays
                 THEN RecomputeTimeline(masterChecks, reviewDays', timeline, today)
                 ELSE timeline
  /\ edits' = edits + 1
  /\ UNCHANGED <<masterChecks, draft, today>>
  /\ UNCHANGED <<spyVars, mapperVars, abdVars, siteVars, folderVars>>

\* the Start date, End date and Schedule dependencies fields
EditTimeline(field, v) ==
  /\ mounted /\ open
  /\ timeline' = [timeline EXCEPT ![field] = v]
  /\ edits' = edits + 1
  /\ UNCHANGED <<masterChecks, reviewDays, draft, today>>
  /\ UNCHANGED <<spyVars, mapperVars, abdVars, siteVars, folderVars>>

\* midnight passes
DayPasses ==
  /\ SetDatePlusOne(today) \in TodayDates
  /\ today' = SetDatePlusOne(today)
  /\ UNCHANGED <<masterChecks, reviewDays, timeline, draft, edits>>
  /\ UNCHANGED <<spyVars, mapperVars, abdVars, siteVars, folderVars>>

\* JSON null
Null == <<>>

\* drafts whose masterChecks is null: loadDraft returns JSON.parse(stored) as it is
MalformedDrafts ==
  { << [masterChecks |-> Null, reviewDays |-> 0, timeline |-> tl] >> :
      tl \in { InitialTimeline,
               [start |-> formatDateToInput(FirstToday), end |-> formatDateToInput(FirstToday),
                dependencies |-> <<>>] } }

\* something else writes localStorage["create-test-plan-draft"]
StorageOverwritten ==
  /\ draft \notin MalformedDrafts
  /\ draft' \in MalformedDrafts
  /\ UNCHANGED <<masterChecks, reviewDays, timeline, today, edits>>
  /\ UNCHANGED <<spyVars, mapperVars, abdVars, siteVars, folderVars>>

\* page refresh: every pending callback is gone, the component mounts with its
\* initial state, the draft-load effect copies the stored draft into the form
\* and the timeline effect runs on the loaded masterChecks and reviewDays.
\* With masterChecks null the render after the draft-load effect throws at
\* masterChecks.unit.checked, before any effect of that render: the page is
\* torn down and the last committed state is that of the first render.
Reload ==
  /\ open' = FALSE
  /\ activeSection' = "meta"
  /\ isManualScrollRef' = FALSE
  /\ timers' = <<>>
  /\ attached' = FALSE
  /\ leaked' = FALSE
  /\ scrollTop' = 0
  /\ ignoredClick' = ""
  /\ IF draft = <<>>
     THEN /\ mounted' = TRUE
          /\ masterChecks' = InitialMasterChecks
          /\ reviewDays' = 0
          /\ timeline' = InitialTimeline
     ELSE IF draft[1].masterChecks = Null
     THEN /\ mounted' = FALSE
          /\ masterChecks' = InitialMasterChecks
          /\ reviewDays' = 0
          /\ timeline' = InitialTimeline
     ELSE /\ mounted' = TRUE
          /\ masterChecks' = draft[1].masterChecks
          /\ reviewDays' = draft[1].reviewDays
          /\ timeline' = RecomputeTimeline(draft[1].masterChecks, draft[1].reviewDays,
                                           draft[1].timeline, today)
  /\ UNCHANGED <<draft, today, edits>>
  /\ UNCHANGED <<mapperVars, abdVars, siteVars, folderVars>>

----------------------------------------------------------------------------
(* Work planner (src/sitecode.jsx): the stored task list.                  *)

MaxDesiredTotal == 2      \* largest desiredTotal passed to ensureSeedTasksForToday
MaxSiteDays == 2          \* number of days the planner is used

DesiredTotals == 0..MaxDesiredTotal

SiteDays == { d \in Dates : d.year = FirstYear /\ d.month = 0 /\ d.date <= MaxSiteDays }

\* getDayKeyInTimeZone(tz): `${y}-${m}-${d}` of the 2-digit month and day parts
getDayKeyInTimeZone(now) == formatDateToInput(now)

\* s.padStart(3, "0")
PadStart3(s) ==
  IF Len(s) = 0 THEN <<"0", "0", "0">>
  ELSE IF Len(s) = 1 THEN <<"0", "0">> \o s
  ELSE IF Len(s) = 2 THEN <<"0">> \o s
  ELSE s

\* one seeded task; the title is `Scenario ${n}`, kept as its number
SeedTask(n, dayKey) ==
  [id |-> <<"S", "C", "N", "-">> \o PadStart3(NatToString(n)),
   title |-> n, status |-> "PENDING", dayKey |-> dayKey]

\* variant: existing.length, without the filter on dayKey
TodayCount_AllDays(existing, dayKey) == Len(existing)

\* existing.filter((t) => t.dayKey === dayKey).length
TodayCount(existing, dayKey) ==
  Cardinality({ k \in 1..Len(existing) : existing[k].dayKey = dayKey })

\* ensureSeedTasksForToday: the list it stores (the stored one when it returns early)
EnsureSeeded(existing, dayKey, desiredTotal) ==
  LET todayCount == TodayCount(existing, dayKey)
      need == desiredTotal - todayCount
      startIdx == todayCount
  IN  IF todayCount >= desiredTotal THEN existing
      ELSE existing \o [i \in 1..need |-> SeedTask(startIdx + i, dayKey)]

\* useState(null) of result and of lastLoggedRunId
NoResult == "NONE"
NoRunId == -1

\* the id "RUN-TEST" of the self-test run; `RUN-${Date.now()}` is kept as the
\* clock value, 1 or more
TestRunId == 0

\* the caps of slice(0, 50) and slice(0, 100)
MaxStoredRuns == 50
MaxStoredDefects == 100

\* arr.slice(0, n)
Slice0(arr, n) == SubSeq(arr, 1, Min(Len(arr), n))

\* a ScenarioResult: id, status, elapsedSeconds and the defectId added by
\* logDefectForRun (0 while absent)
ScenarioRun(id, status, elapsedSeconds) ==
  [id |-> id, status |-> status, elapsedSeconds |-> elapsedSeconds, defectId |-> 0]

\* variant: [run, ...loadScenarioRuns()] without the slice
appendScenarioRun_NoSlice(run, stored) == <<run>> \o stored

\* appendScenarioRun(run): the list it stores
appendScenarioRun(run, stored) == Slice0(<<run>> \o stored, MaxStoredRuns)

\* appendExtraDefect(defect): the list it stores
appendExtraDefect(id, stored) == Slice0(<<id>> \o stored, MaxStoredDefects)

SiteInit ==
  /\ tasks = <<>>
  /\ siteToday = FirstToday
  /\ plannerTasks = <<>>
  /\ plannerDayKey = <<>>
  /\ scenarioRuns = <<>>
  /\ extraDefects = <<>>
  /\ clock = 0
  /\ swElapsed = 0
  /\ swRunning = FALSE
  /\ cardResult = NoResult
  /\ showDefectForm = FALSE
  /\ lastLoggedRunId = NoRunId
  /\ cardRuns = 0

\* ensureSeedTasksForToday(tz, desiredTotal) called on its own (runSelfTests)
ensureSeedTasksForToday(desiredTotal) ==
  /\ tasks' = EnsureSeeded(tasks, getDayKeyInTimeZone(siteToday), desiredTotal)
  /\ UNCHANGED <<siteToday, plannerTasks, plannerDayKey, runVars, cardVars>>
  /\ UNCHANGED <<spyVars, formVars, mapperVars, abdVars, folderVars>>

\* WorkPlanerPage mounts: dayKey is memoized, the effect runs
\* ensureSeedTasksForToday(TIME_ZONE, desiredTotal) and setTasks(loadTasks());
\* its WorkPlannerFlashCard mounts with its initial state
WorkPlanerMount(desiredTotal) ==
  /\ tasks' = EnsureSeeded(tasks, getDayKeyInTimeZone(siteToday), desiredTotal)
  /\ plannerTasks' = tasks'
  /\ plannerDayKey' = getDayKeyInTimeZone(siteToday)
  /\ swElapsed' = 0
  /\ swRunning' = FALSE
  /\ cardResult' = NoResult
  /\ showDefectForm' = FALSE
  /\ lastLoggedRunId' = NoRunId
  /\ cardRuns' = 0
  /\ UNCHANGED <<siteToday, runVars>>
  /\ UNCHANGED <<spyVars, formVars, mapperVars, abdVars, folderVars>>

\* tasks.findIndex((t) => t.dayKey === dayKey && t.status === "PENDING"), 1-based,
\* 0 when absent
FindPendingIndex(list, dayKey) ==
  LET found == { k \in 1..Len(list) : list[k].dayKey = dayKey /\ list[k].status = "PENDING" }
  IN  IF found = {} THEN 0 ELSE CHOOSE k \in found : \A j \in found : k <= j

\* variant: DONE whatever the status passed in
MarkedStatus_AlwaysDone(status) == "DONE"

\* status === "PASS" ? "DONE" : "FAILED"
MarkedStatus(status) == IF status = "PASS" THEN "DONE" ELSE "FAILED"

\* WorkPlanerPage.markNextTaskComplete(status): saveTasks(nextTasks) and
\* setTasks(nextTasks) when a pending task of dayKey is found
MarkNext(status) ==
  LET idx == FindPendingIndex(plannerTasks, plannerDayKey)
  IN  IF idx > 0
      THEN LET nextTasks == [plannerTasks EXCEPT ![idx].status = MarkedStatus(status)]
           IN  /\ tasks' = nextTasks
               /\ plannerTasks' = nextTasks
      ELSE UNCHANGED <<tasks, plannerTasks>>

\* markNextTaskComplete(status) called while the page is mounted
markNextTaskComplete(status) ==
  /\ plannerDayKey # <<>>
  /\ MarkNext(status)
  /\ UNCHANGED <<siteToday, plannerDayKey, runVars, cardVars>>
  /\ UNCHANGED <<spyVars, formVars, mapperVars, abdVars, folderVars>>

\* midnight passes in the planner's time zone
SiteDayPasses ==
  /\ SetDatePlusOne(siteToday) \in SiteDays
  /\ siteToday' = SetDatePlusOne(siteToday)
  /\ UNCHANGED <<tasks, plannerTasks, plannerDayKey, runVars, cardVars>>
  /\ UNCHANGED <<spyVars, formVars, mapperVars, abdVars, folderVars>>

----------------------------------------------------------------------------
(* Work planner: WorkPlannerFlashCard and the stored scenario runs.  The   *)
(* checklist of a run and the title and severity of a defect are left out. *)

MaxElapsed == 2           \* seconds the stopwatch is let run
MaxCardRuns == 2          \* scenario runs logged from cards in CardSpec
MaxLoggedRuns == 1        \* scenario runs logged from cards in RunSpec
MaxDefectNumbers == 2     \* number of defect numbers Math.random() is let give

\* `BUG-${Math.floor(100 + Math.random() * 900)}`, kept as its number
FirstDefectNumber == 100
DefectNumbers == FirstDefectNumber..(FirstDefectNumber + MaxDefectNumbers - 1)

\* const isLocked = result !== null
isLocked == cardResult # NoResult

\* const canMarkResult = sw.elapsed > 0 || sw.running
canMarkResult == swElapsed > 0 \/ swRunning

\* Start button: sw.start(); disabled={sw.running || isLocked}
swStart ==
  /\ plannerDayKey # <<>>
  /\ ~(swRunning \/ isLocked)
  /\ swRunning' = TRUE
  /\ UNCHANGED <<swElapsed, cardResult, showDefectForm, lastLoggedRunId, cardRuns>>
  /\ UNCHANGED <<tasks, siteToday, plannerTasks, plannerDayKey, runVars>>
  /\ UNCHANGED <<spyVars, formVars, mapperVars, abdVars, folderVars>>

\* Pause / Resume button: sw.running ? sw.pause() : sw.start(); disabled={isLocked}
swPauseResume ==
  /\ plannerDayKey # <<>>
  /\ ~isLocked
  /\ swRunning' = ~swRunning
  /\ UNCHANGED <<swElapsed, cardResult, showDefectForm, lastLoggedRunId, cardRuns>>
  /\ UNCHANGED <<tasks, siteToday, plannerTasks, plannerDayKey, runVars>>
  /\ UNCHANGED <<spyVars, formVars, mapperVars, abdVars, folderVars>>

\* Stop button: sw.stop(); disabled={isLocked}
swStop ==
  /\ plannerDayKey # <<>>
  /\ ~isLocked
  /\ swRunning' = FALSE
  /\ UNCHANGED <<swElapsed, cardResult, showDefectForm, lastLoggedRunId, cardRuns>>
  /\ UNCHANGED <<tasks, siteToday, plannerTasks, plannerDayKey, runVars>>
  /\ UNCHANGED <<spyVars, formVars, mapperVars, abdVars, folderVars>>

\* the interval of useStopwatch, set while running: setElapsed((v) => v + 1)
swTick ==
  /\ plannerDayKey # <<>>
  /\ swRunning
  /\ swElapsed < MaxElapsed
  /\ swElapsed' = swElapsed + 1
  /\ UNCHANGED <<swRunning, cardResult, showDefectForm, lastLoggedRunId, cardRuns>>
  /\ UNCHANGED <<tasks, siteToday, plannerTasks, plannerDayKey, runVars>>
  /\ UNCHANGED <<spyVars, formVars, mapperVars, abdVars, folderVars>>

\* variant: Pass / Fail with disabled={!canMarkResult}
stopAndLogEnabled_WhileLocked == canMarkResult \/ isLocked

\* Pass / Fail buttons: disabled={isLocked || !canMarkResult}
stopAndLogEnabled == ~(isLocked \/ ~canMarkResult)

\* Pass / Fail button: stopAndLog(nextStatus), with onResultLocked calling
\* markNextTaskComplete(status) of the page
stopAndLog(nextStatus) ==
  /\ plannerDayKey # <<>>
  /\ stopAndLogEnabled
  /\ swRunning' = FALSE
  /\ clock' = clock + 1
  /\ scenarioRuns' = appendScenarioRun(ScenarioRun(clock', nextStatus, swElapsed), scenarioRuns)
  /\ lastLoggedRunId' = clock'
  /\ MarkNext(nextStatus)
  /\ cardResult' = nextStatus
  /\ showDefectForm' = IF nextStatus = "FAIL" THEN TRUE ELSE showDefectForm
  /\ cardRuns' = cardRuns + 1
  /\ UNCHANGED <<swElapsed, extraDefects, siteToday, plannerDayKey>>
  /\ UNCHANGED <<spyVars, formVars, mapperVars, abdVars, folderVars>>

\* runs.map((r) => r.id === lastLoggedRunId ? { ...r, defectId: id } : r)
WithDefectId(runs, runId, id) ==
  [k \in 1..Len(runs) |-> IF runs[k].id = runId THEN [runs[k] EXCEPT !.defectId = id]
                          ELSE runs[k]]

\* "Save defect" in the form shown while showDefectForm && result === "FAIL":
\* logDefectForRun()
logDefectForRun(id) ==
  /\ plannerDayKey # <<>>
  /\ showDefectForm /\ cardResult = "FAIL"
  /\ extraDefects' = appendExtraDefect(id, extraDefects)
  /\ scenarioRuns' = IF lastLoggedRunId # NoRunId
                     THEN WithDefectId(scenarioRuns, lastLoggedRunId, id)
                     ELSE scenarioRuns
  /\ showDefectForm' = FALSE
  /\ UNCHANGED <<swElapsed, swRunning, cardResult, lastLoggedRunId, cardRuns, clock>>
  /\ UNCHANGED <<tasks, siteToday, plannerTasks, plannerDayKey>>
  /\ UNCHANGED <<spyVars, formVars, mapperVars, abdVars, folderVars>>

\* "Dismiss" in the defect form: setShowDefectForm(false)
DismissDefectForm ==
  /\ plannerDayKey # <<>>
  /\ showDefectForm /\ cardResult = "FAIL"
  /\ showDefectForm' = FALSE
  /\ UNCHANGED <<swElapsed, swRunning, cardResult, lastLoggedRunId, cardRuns>>
  /\ UNCHANGED <<tasks, siteToday, plannerTasks, plannerDayKey, runVars>>
  /\ UNCHANGED <<spyVars, formVars, mapperVars, abdVars, folderVars>>

\* runSelfTests(): its appendScenarioRun of the run "RUN-TEST" and its
\* ensureSeedTasksForToday
runSelfTests ==
  /\ scenarioRuns' = appendScenarioRun(ScenarioRun(TestRunId, "PASS", 1), scenarioRuns)
  /\ tasks' = EnsureSeeded(tasks, getDayKeyInTimeZone(siteToday), MaxDesiredTotal)
  /\ UNCHANGED <<siteToday, plannerTasks, plannerDayKey, extraDefects, clock, cardVars>>
  /\ UNCHANGED <<spyVars, formVars, mapperVars, abdVars, folderVars>>

----------------------------------------------------------------------------
(* Test plan folders (testPlanStorage, src/unnamed/part_000).  A folder is *)
(* kept as its id and its plans, a plan as its id and its name.            *)

MaxPlanIds == 2           \* number of plan ids in use

PlanIds == 1..MaxPlanIds

PlanNames == {"a", "b"}

TestPlans == [id : PlanIds, name : PlanNames]

\* the folders loadFolders returns while nothing is stored
DefaultFolders ==
  << [id |-> "f_design", plans |-> <<>>], [id |-> "f_ai", plans |-> <<>>],
     [id |-> "f_fun", plans |-> <<>>], [id |-> "f_craft", plans |-> <<>>] >>

\* folderId left out, or the "" of "Select a folder": both are falsy
NoFolderId == ""

\* folders[0]?.id of an empty list
UndefinedId == "undefined"

FolderIdInputs == {NoFolderId, "f_ai", "f_none"}

\* loadFolders(): JSON.parse(stored) when the key is there, the default folders otherwise
loadFolders(store) == IF store.present THEN store.folders ELSE DefaultFolders

\* const targetFolderId = folderId || folders[0]?.id
TargetFolderId(folders, folderId) ==
  IF folderId # NoFolderId THEN folderId
  ELSE IF Len(folders) > 0 THEN folders[1].id ELSE UndefinedId

\* arr.findIndex((x) => x.id === id), 0-based, -1 when absent
RECURSIVE FindIdFrom(_, _, _)
FindIdFrom(arr, k, id) ==
  IF k > Len(arr) THEN -1
  ELSE IF arr[k].id = id THEN k - 1
  ELSE FindIdFrom(arr, k + 1, id)

\* variant: the plan is never found, every save is an unshift
PlanIndex_NeverFound(plans, id) == -1

\* folders[folderIndex].plans.findIndex((p) => p.id === plan.id)
PlanIndex(plans, id) == FindIdFrom(plans, 1, id)

\* the folders handed to saveFolders: plans[planIndex] = plan, or plans.unshift(plan)
WithPlan(folders, folderIndex, plan) ==
  LET plans == folders[folderIndex + 1].plans
      planIndex == PlanIndex(plans, plan.id)
  IN  [folders EXCEPT ![folderIndex + 1].plans =
         IF planIndex >= 0 THEN [plans EXCEPT ![planIndex + 1] = plan]
         ELSE <<plan>> \o plans]

FolderInit ==
  /\ folderStore = [present |-> FALSE, folders |-> <<>>]
  /\ saveReturn = "none"
  /\ lastSaveCall = [made |-> FALSE, replaced |-> FALSE, wrote |-> FALSE]

\* saveTestPlanToFolder(plan, folderId).  saveFolders catches a throwing
\* localStorage.setItem (writes = FALSE) and returns normally
saveTestPlanToFolder(plan, folderId, writes) ==
  LET folders == loadFolders(folderStore)
      targetFolderId == TargetFolderId(folders, folderId)
      folderIndex == FindIdFrom(folders, 1, targetFolderId)
  IN  /\ IF folderIndex = -1
         THEN /\ saveReturn' = "false"
              /\ UNCHANGED folderStore
         ELSE /\ folderStore' = IF writes
                                THEN [present |-> TRUE,
                                      folders |-> WithPlan(folders, folderIndex, plan)]
                                ELSE folderStore
              /\ saveReturn' = "true"
      /\ lastSaveCall' =
           [made |-> TRUE,
            replaced |-> (folderIndex # -1
                            /\ PlanIndex(folders[folderIndex + 1].plans, plan.id) >= 0),
            wrote |-> (writes /\ folderIndex # -1)]
      /\ UNCHANGED <<spyVars, formVars, mapperVars, abdVars, siteVars>>

----------------------------------------------------------------------------
(* Specifications                                                          *)

Init == PageInit /\ MapperInit /\ AbdIdle /\ SiteInit /\ FolderInit

\* the user's form edits
FormEdit ==
  \/ \E ph \in EditedPhases : ToggleCheck(ph)
  \/ \E ph \in EditedPhases, value \in DaysInputs : handleDaysChange(ph, value)
  \/ \E value \in ReviewInputs : ReviewDaysChange(value)

\* Spec: the page with its modal scroll-spy, the checklist edits, Save draft
\* and Reset
Next ==
  \/ Len(timers) < MaxTimers /\ OpenModal
  \/ CloseModal
  \/ Unmount
  \/ \E i \in 1..MaxTimers : RegisterTimerFired(i)
  \/ \E pos \in ScrollPositions : ScrollEvent(pos)
  \/ Len(timers) < MaxTimers /\ open /\ \E id \in OutlineIds : scrollToSection(id)
  \/ \E i \in 1..MaxTimers : OverrideTimerFired(i)
  \/ \E ok \in BOOLEAN : handleSave(ok)
  \/ resetForm
  \/ edits < MaxEdits /\ FormEdit

Spec == Init /\ [][Next]_vars

\* FormSpec: the form of the page, over several days and page refreshes
FormInit ==
  /\ SpyInit /\ FormFieldsInit /\ today \in TodayDates
  /\ MapperInit /\ AbdIdle /\ SiteInit /\ FolderInit

FormNext ==
  \/ Len(timers) < MaxTimers /\ OpenModal
  \/ CloseModal
  \/ Reload
  \/ \E i \in 1..MaxTimers : RegisterTimerFired(i)
  \/ \E ok \in BOOLEAN : handleSave(ok)
  \/ resetForm
  \/ edits < MaxFormEdits /\ FormEdit
  \/ edits < MaxFormEdits /\ \E v \in DateInputs : EditTimeline("start", v)
  \/ edits < MaxFormEdits /\ \E v \in DateInputs : EditTimeline("end", v)
  \/ edits < MaxFormEdits /\ \E v \in DependencyInputs : EditTimeline("dependencies", v)
  \/ DayPasses
  \/ StorageOverwritten

FormSpec == FormInit /\ [][FormNext]_vars

\* MapperSpec: the two progress mappers
MapperNext ==
  \/ \E v \in ProgressValues : DetailProgressChange(v)
  \/ \E v \in ProgressValues : HomeProgressChange(v)
  \/ \E target \in Screens : SwitchScreen(target)

MapperSpec == Init /\ [][MapperNext]_vars

\* RangeSpec: the two progress mappers fed values inside and outside [0,1]
RangeNext ==
  \/ \E v \in AnyProgress : DetailProgressChange(v)
  \/ \E v \in AnyProgress : HomeProgressChange(v)
  \/ \E target \in Screens : SwitchScreen(target)

RangeSpec == Init /\ [][RangeNext]_vars

\* LayoutSpec: the progress handler of TestExecutionDetailScreen applied to
\* drawn section data
LayoutInit ==
  /\ PageInit /\ MapperFieldsInit /\ AbdIdle /\ SiteInit /\ FolderInit
  /\ detailSections \in SectionLayouts

LayoutNext ==
  \/ \E v \in ProgressValues : DetailProgressChange(v)
  \/ \E target \in Screens \ {"home"} : SwitchScreen(target)

LayoutSpec == LayoutInit /\ [][LayoutNext]_vars

\* ScrollSpec: the three scroll surfaces (the two progress mappers and the
\* modal scroll-spy)
ScrollNext ==
  \/ \E v \in ProgressValues : DetailProgressChange(v)
  \/ \E v \in ProgressValues : HomeProgressChange(v)
  \/ \E target \in Screens : SwitchScreen(target)
  \/ Len(timers) < MaxTimers /\ OpenModal
  \/ CloseModal
  \/ \E i \in 1..MaxTimers : RegisterTimerFired(i)
  \/ \E pos \in ScrollPositions : ScrollEvent(pos)
  \/ Len(timers) < MaxTimers /\ open /\ \E id \in OutlineIds : scrollToSection(id)
  \/ \E i \in 1..MaxTimers : OverrideTimerFired(i)

ScrollSpec == Init /\ [][ScrollNext]_vars

\* TabSpec: the modal scroll-spy with scrollToSection called for any id, the
\* modal open or closed
TabNext ==
  \/ Len(timers) < MaxTimers /\ OpenModal
  \/ CloseModal
  \/ \E i \in 1..MaxTimers : RegisterTimerFired(i)
  \/ \E pos \in ScrollPositions : ScrollEvent(pos)
  \/ Len(timers) < MaxTimers /\ \E id \in OutlineIds \cup {MissingId} : scrollToSection(id)
  \/ \E i \in 1..MaxTimers : OverrideTimerFired(i)

TabSpec == Init /\ [][TabNext]_vars

AbdSpecInit == PageInit /\ MapperInit /\ AbdInit /\ SiteInit /\ FolderInit

AbdNext ==
  \/ CallAddBusinessDays
  \/ CallAddBusinessDaysAgain

AbdSpec == AbdSpecInit /\ [][AbdNext]_vars

\* TaskSpec: the work planner's stored tasks over several days
TaskNext ==
  \/ \E desiredTotal \in DesiredTotals : ensureSeedTasksForToday(desiredTotal)
  \/ \E desiredTotal \in DesiredTotals : WorkPlanerMount(desiredTotal)
  \/ \E status \in {"PASS", "FAIL"} : markNextTaskComplete(status)
  \/ SiteDayPasses

TaskSpec == Init /\ [][TaskNext]_vars

\* RunSpec: the stored scenario runs, written by the self-tests and by cards
RunNext ==
  \/ runSelfTests
  \/ WorkPlanerMount(MaxDesiredTotal)
  \/ swStart
  \/ clock < MaxLoggedRuns /\ \E nextStatus \in {"PASS", "FAIL"} : stopAndLog(nextStatus)
  \/ logDefectForRun(FirstDefectNumber)

RunSpec == Init /\ [][RunNext]_vars

\* CardSpec: the WorkPlannerFlashCard of the work planner page
CardNext ==
  \/ WorkPlanerMount(MaxDesiredTotal)
  \/ swStart
  \/ swPauseResume
  \/ swStop
  \/ swTick
  \/ clock < MaxCardRuns /\ \E nextStatus \in {"PASS", "FAIL"} : stopAndLog(nextStatus)
  \/ \E id \in DefectNumbers : logDefectForRun(id)
  \/ DismissDefectForm

CardSpec == Init /\ [][CardNext]_vars

\* FolderSpec: saveTestPlanToFolder applied to drawn plans and folder ids
FolderNext ==
  \E plan \in TestPlans, folderId \in FolderIdInputs, writes \in BOOLEAN :
    saveTestPlanToFolder(plan, folderId, writes)

FolderSpec == Init /\ [][FolderNext]_vars

----------------------------------------------------------------------------
(* Properties                                                              *)

\* a scroll event that runs the registered handleScroll
HandledScroll == attached /\ \E pos \in ScrollPositions : ScrollEvent(pos)

\* the section the scroll position selects: the last one near the bottom,
\* otherwise the last section whose top is at most 160 px below the container
\* top, otherwise the first section
SectionAt(top) ==
  LET reached == { k \in 1..Len(OUTLINE_SECTIONS) : SectionTop(k) - top <= SpyThresholdOffset }
  IN  IF top + ClientHeight >= ScrollHeight - NearBottomThreshold
      THEN OUTLINE_SECTIONS[Len(OUTLINE_SECTIONS)]
      ELSE IF reached = {} THEN OUTLINE_SECTIONS[1]
      ELSE OUTLINE_SECTIONS[CHOOSE k \in reached : \A j \in reached : j <= k]

\* C1: while the timer armed by the latest scrollToSection call is pending, a
\* handled scroll event leaves activeSection unchanged (the expiry of an
\* earlier call's timer does not end the override)
C1_OverrideLastsUntilLatestTimer ==
  [][(HandledScroll /\ PendingOverrideTimers # {}) => activeSection' = activeSection]_vars

\* C2: scrollToSection(id) sets activeSection to id at once; a scroll event
\* handled while isManualScrollRef is set leaves activeSection unchanged; a
\* scroll event handled while it is clear sets activeSection to the section the
\* new scroll position selects
C2_OverrideHoldsActiveSection ==
  [][ /\ \A id \in OutlineIds : scrollToSection(id) => activeSection' = id
      /\ (HandledScroll /\ isManualScrollRef) => activeSection' = activeSection
      /\ (HandledScroll /\ ~isManualScrollRef) => activeSection' = SectionAt(scrollTop')
    ]_vars

\* C2 witness: the override holds a section that the scroll position, here the
\* near-bottom one, does not select
C2_Witness ==
  /\ isManualScrollRef /\ attached /\ open
  /\ NearBottom(scrollTop)
  /\ activeSection = OUTLINE_SECTIONS[2]

\* C3: at most one override-expiry timer is pending
C3_AtMostOneOverrideTimer == Cardinality(PendingOverrideTimers) <= 1

\* C4: once the modal is closed or the page unmounted, no scroll-spy listener
\* is left registered and no registration or override timer is pending
C4_CloseReleasesScrollSpy ==
  (~mounted \/ ~open) =>
    (~leaked /\ ~attached /\ PendingOverrideTimers = {} /\ PendingRegisterTimers = {})

\* C5: isManualScrollRef goes from set to clear only in the step of an
\* override timer's callback
C5_OnlyTimerClearsOverride ==
  [][(isManualScrollRef /\ ~isManualScrollRef') => \E i \in 1..MaxTimers : OverrideTimerFired(i)]_vars

\* C5 witness: the flag is still set after a form edit, a draft save and the
\* close of the modal
C5_Witness == isManualScrollRef /\ ~open /\ edits > 0 /\ draft # <<>>

C7_EndpointsSelectFirstAndLast ==
  [][ /\ DetailProgressChange(0) => detailActiveDay' = 0
      /\ DetailProgressChange(PercentScale) => detailActiveDay' = DetailNumDays - 1
      /\ HomeProgressChange(0) => homeActiveDay' = 0
      /\ HomeProgressChange(PercentScale) => homeActiveDay' = HomeNumDays - 1
      /\ (HandledScroll /\ ~isManualScrollRef
            /\ scrollTop' + ClientHeight >= ScrollHeight - NearBottomThreshold)
           => activeSection' = OUTLINE_SECTIONS[Len(OUTLINE_SECTIONS)]
    ]_vars

\* C7 witness: TestPlannerHome at progress 1.0 after the modal scroll-spy has
\* selected the last section near the bottom
C7_Witness ==
  /\ screen = "home" /\ homeProgress = PercentScale /\ homeActiveDay = HomeNumDays - 1
  /\ activeSection = OUTLINE_SECTIONS[Len(OUTLINE_SECTIONS)] /\ ~isManualScrollRef

\* C8: the active day is in 0..N-1 and the active section in
\* 0..(number of sections - 1), in both mappers
C8_ActiveIndicesInRange ==
  /\ detailActiveDay \in 0..(DetailNumDays - 1)
  /\ detailActiveSection \in 0..(Len(DETAIL_SECTIONS) - 1)
  /\ homeActiveDay \in 0..(HomeNumDays - 1)
  /\ homeActiveSection \in 0..(Len(SECTIONS) - 1)

\* C8 witness: TestPlannerHome just past the last section boundary
C8_Witness == screen = "home" /\ homeProgress = 84 /\ homeActiveSection = Len(SECTIONS) - 1

\* the weekdays (Monday to Friday) after `from` up to and including `to`
WeekdaysBetween(from, to) ==
  Cardinality({ k \in (DayNumber(from) + 1)..DayNumber(to) : (k + 4) % 7 \notin {0, 6} })

\* C9: for n >= 0 the result is never a Saturday or Sunday and exactly n
\* weekdays lie between d (exclusive) and the result (inclusive)
C9_NeverWeekendExactCount ==
  abdResult # NoDate =>
    /\ GetDay(abdResult) \notin {0, 6}
    /\ WeekdaysBetween(abdStart, abdResult) = abdDays

\* C9 amended: for n >= 1 the result is never a Saturday or Sunday; for n >= 0
\* exactly n weekdays lie between d (exclusive) and the result (inclusive)
C9_WeekdayResultForPositiveDays ==
  abdResult # NoDate =>
    /\ abdDays >= 1 => GetDay(abdResult) \notin {0, 6}
    /\ DayNumber(abdResult) >= DayNumber(abdStart)
    /\ WeekdaysBetween(abdStart, abdResult) = abdDays

\* C9 witness: a call from a Saturday with the largest drawn number of days
C9_Witness == abdResult # NoDate /\ abdDays = MaxBusinessDays /\ GetDay(abdStart) = 6

\* C10: addBusinessDays(d, 0) is d, weekend dates included
C10_ZeroDaysIsIdentity == (abdResult # NoDate /\ abdDays = 0) => abdResult = abdStart

\* C10 witness: a call with 0 days from a Sunday
C10_Witness == abdResult # NoDate /\ abdDays = 0 /\ GetDay(abdStart) = 0

\* the days of the checked phases, counted phase by phase
CheckedDaysTotal(mc) ==
  Cardinality({ pk \in PhaseNames \X (1..(MaxDaysInput + 1)) :
                  mc[pk[1]].checked /\ pk[2] <= mc[pk[1]].days })

\* YYYY-MM-DD
IsoDate(s) ==
  /\ Len(s) = 10
  /\ s[5] = "-" /\ s[8] = "-"
  /\ \A k \in {1, 2, 3, 4, 6, 7, 9, 10} : IsDigit(s[k])

\* the timeline the recomputation starts from: the stored draft's after a page
\* refresh, the current one otherwise
PriorTimeline ==
  IF Reload THEN (IF draft = <<>> THEN InitialTimeline ELSE draft[1].timeline)
  ELSE timeline

\* C11: a step that changes masterChecks or reviewDays and leaves
\* totalDays > 0 sets timeline.start to today and timeline.end to
\* addBusinessDays(today, totalDays), both as YYYY-MM-DD, and keeps
\* timeline.dependencies
C11_RecomputeSetsStartAndEnd ==
  [][ ((masterChecks' # masterChecks \/ reviewDays' # reviewDays)
         /\ CheckedDaysTotal(masterChecks') + reviewDays' > 0)
      => /\ timeline'.start = formatDateToInput(today)
         /\ timeline'.end = formatDateToInput(
                               addBusinessDays(today, CheckedDaysTotal(masterChecks') + reviewDays'))
         /\ IsoDate(timeline'.start) /\ IsoDate(timeline'.end)
         /\ timeline'.dependencies = PriorTimeline.dependencies
    ]_vars

\* C11 witness: a schedule computed after the dependencies text was typed
C11_Witness ==
  /\ timeline.dependencies # <<>>
  /\ CheckedDaysTotal(masterChecks) + reviewDays > 0
  /\ timeline.start = formatDateToInput(today)
  /\ timeline.end = formatDateToInput(addBusinessDays(today, CheckedDaysTotal(masterChecks) + reviewDays))

\* every phase is unchecked or has 0 days
NoPhaseDays(mc) == \A ph \in PhaseNames : ~mc[ph].checked \/ mc[ph].days = 0

\* C12: a form edit or a page refresh that leaves the page shown with every
\* phase unchecked or at 0 days and reviewDays at 0 keeps timeline.start and
\* timeline.end as they were before the recomputation
C12_NoDaysKeepsSchedule ==
  [][ ((FormEdit \/ Reload) /\ mounted' /\ NoPhaseDays(masterChecks') /\ reviewDays' = 0)
      => /\ timeline'.start = PriorTimeline.start
         /\ timeline'.end = PriorTimeline.end
    ]_vars

\* C12 witness: a schedule computed earlier is still shown after the days were
\* taken back to none
C12_Witness ==
  /\ edits >= 2
  /\ NoPhaseDays(masterChecks) /\ reviewDays = 0
  /\ timeline.start = formatDateToInput(today)
  /\ IsoDate(timeline.end)

\* other fillings of the checklist and of Review days to compare with
OtherForms ==
  { [masterChecks |-> [InitialMasterChecks EXCEPT !["unit"] = u, !["load"] = l],
     reviewDays |-> rd] :
      u \in [checked : BOOLEAN, days : 0..(MaxDaysInput + 1)],
      l \in [checked : BOOLEAN, days : 0..(MaxDaysInput + 1)],
      rd \in 0..(MaxReviewInput + 1) }

\* C13: the schedule a step computes is the one computed for every other
\* filling whose checked phases' days plus review days give the same total,
\* whatever the days of the unchecked phases
C13_UncheckedPhasesCountZero ==
  [][ ((masterChecks' # masterChecks \/ reviewDays' # reviewDays)
         /\ CheckedDaysTotal(masterChecks') + reviewDays' > 0)
      => \A f \in OtherForms :
           CheckedDaysTotal(f.masterChecks) + f.reviewDays
               = CheckedDaysTotal(masterChecks') + reviewDays'
           => LET other == RecomputeTimeline(f.masterChecks, f.reviewDays, PriorTimeline, today)
              IN  other.start = timeline'.start /\ other.end = timeline'.end
    ]_vars

\* C13 witness: a schedule computed while an unchecked phase carries days
C13_Witness ==
  /\ ~masterChecks["load"].checked /\ masterChecks["load"].days > 0
  /\ CheckedDaysTotal(masterChecks) + reviewDays > 0
  /\ timeline.end = formatDateToInput(
                       addBusinessDays(today, CheckedDaysTotal(masterChecks) + reviewDays))

\* C14: timeline.start and timeline.end change only in a step that changes
\* masterChecks or reviewDays (the schedule recomputation); editing the
\* Start date / End date fields, resetForm and loading a draft keep them
C14_ScheduleDatesOnlyDerived ==
  [][ (timeline'.start # timeline.start \/ timeline'.end # timeline.end)
      => (~Reload /\ (masterChecks' # masterChecks \/ reviewDays' # reviewDays))
    ]_vars

\* the text has a character that is not a digit
HasNonDigit(s) == \E k \in 1..Len(s) : ~IsDigit(s[k])

\* C15: after an edit of a phase's Days input the days value is a non-negative
\* integer, and an input that is not a number (empty, or not starting with a
\* digit) sets it to 0
C15_DaysNonNegativeElseZero ==
  [][ \A ph \in PhaseNames, value \in DaysInputs :
        handleDaysChange(ph, value)
        => /\ masterChecks'[ph].days \in Nat
           /\ ParseInt(value).isNaN => masterChecks'[ph].days = 0
    ]_vars

\* C15 amended: after an edit of a phase's Days input the days value is a
\* non-negative integer; the empty input sets it to 0, an input of digits sets
\* it to the number typed, and an input with any other character is ignored
\* and keeps the value
C15_DaysDigitsOnlyElseKept ==
  [][ \A ph \in PhaseNames, value \in DaysInputs :
        handleDaysChange(ph, value)
        => /\ \A q \in PhaseNames : masterChecks'[q].days \in Nat
           /\ value = <<>> => masterChecks'[ph].days = 0
           /\ (value # <<>> /\ ~HasNonDigit(value))
                => NatToString(masterChecks'[ph].days) = value
           /\ HasNonDigit(value) => masterChecks' = masterChecks
    ]_vars

\* C15 witness: after two edits a phase carries the largest number typed
C15_Witness ==
  /\ edits >= 2
  /\ masterChecks["unit"].days = MaxDaysInput
  /\ masterChecks["load"].days = 0 /\ reviewDays = 0

\* C16: reviewDays is a non-negative integer after any sequence of edits of
\* the Review days input
C16_ReviewDaysNonNegative == reviewDays \in Nat

\* C17: a page load with a stored draft whose masterChecks is null leaves the
\* page shown, with timeline.start and timeline.end as the draft has them
C17_MalformedDraftFailsSoft ==
  [][ (Reload /\ draft # <<>> /\ draft[1].masterChecks = Null)
      => /\ mounted'
         /\ timeline'.start = draft[1].timeline.start
         /\ timeline'.end = draft[1].timeline.end
    ]_vars

\* C18: a progress update below 0 behaves like one of 0 and one above 1 like
\* one of 1, in both mappers, and no handler call throws
C18_OutOfRangeProgressClamped ==
  [][ \A v \in AnyProgress :
        /\ DetailProgressChange(v)
            => /\ detailActiveDay' = DetailNewActiveDay(Clamp(v))
               /\ detailActiveSection' = DetailSectionIndex(DetailNewActiveDay(Clamp(v)))
               /\ ~handlerError'
        /\ HomeProgressChange(v)
            => /\ ~handlerError'
               /\ homeActiveSection' = HomeSectionIndex(Clamp(v))
               /\ homeActiveDay' = HomeDayIndex(Clamp(v))
    ]_vars

StartsWith(after, before) ==
  Len(before) <= Len(after) /\ SubSeq(after, 1, Len(before)) = before

\* a call of ensureSeedTasksForToday, on its own or from the WorkPlanerPage effect
SeedCall(desiredTotal) ==
  ensureSeedTasksForToday(desiredTotal) \/ WorkPlanerMount(desiredTotal)

\* C20: after ensureSeedTasksForToday(tz, T) at least T stored tasks have
\* today's dayKey, every task stored before is still stored unchanged, and a
\* second call with the same T would store the same list
C20_SeedReachesTotalKeepsTasks ==
  [][ \A T \in DesiredTotals :
        SeedCall(T)
        => /\ Cardinality({ k \in 1..Len(tasks') :
                              tasks'[k].dayKey = formatDateToInput(siteToday) }) >= T
           /\ StartsWith(tasks', tasks)
           /\ EnsureSeeded(tasks', getDayKeyInTimeZone(siteToday), T) = tasks'
    ]_vars

\* C20 witness: the second day's tasks were seeded after the first day's, one
\* of which is no longer pending
C20_Witness ==
  /\ siteToday # FirstToday
  /\ \E k \in 1..Len(tasks) : tasks[k].dayKey = getDayKeyInTimeZone(siteToday)
  /\ \E k \in 1..Len(tasks) :
        tasks[k].dayKey = getDayKeyInTimeZone(FirstToday) /\ tasks[k].status # "PENDING"

\* the markers whose position i/(N-1)*100 is at most progress*100
MarkersReached(v) ==
  { i \in 0..(DetailNumDays - 1) : i * PercentScale <= v * (DetailNumDays - 1) }

\* C22: each progress update of TestExecutionDetailScreen sets the active
\* marker to the highest index i in 0..N-1 whose position i/(N-1)*100 is at
\* most progress*100, and to marker 0 when no marker qualifies
C22_HighestMarkerReached ==
  [][ \A v \in AnyProgress :
        DetailProgressChange(v)
        => IF MarkersReached(v) = {}
           THEN detailActiveDay' = 0
           ELSE /\ detailActiveDay' \in MarkersReached(v)
                /\ \A i \in MarkersReached(v) : i <= detailActiveDay'
    ]_vars

\* C22 witness: the progress is just on the position of marker 3, which is
\* active
C22_Witness == screen = "detail" /\ detailProgress = 60 /\ detailActiveDay = 3

\* C23: with the override flag clear, a scroll event handled while
\* scrollTop + clientHeight >= scrollHeight - 100 sets the active section to
\* the last outline section, whatever section the position scan selects
C23_NearBottomForcesLastSection ==
  [][ (HandledScroll /\ ~isManualScrollRef /\ scrollTop' + ClientHeight >= ScrollHeight - 100)
      => activeSection' = "comments"
    ]_vars

\* C23 witness: near the bottom the last section is active while the position
\* scan selects an earlier one
C23_Witness ==
  /\ open /\ attached /\ ~isManualScrollRef
  /\ scrollTop + ClientHeight >= ScrollHeight - 100
  /\ activeSection = "comments"
  /\ SpyScan(Len(OUTLINE_SECTIONS), scrollTop) = "schedule"

\* C26: scrollToSection(id) with an id that resolves to no element, or while
\* the scroll container is absent (the modal is closed), keeps activeSection
\* and the override flag, moves no scroll position and arms no timer
C26_UnresolvedTabClickChangesNothing ==
  [][ \A id \in OutlineIds \cup {MissingId} :
        (scrollToSection(id) /\ (id \notin OutlineIds \/ ~open))
        => /\ activeSection' = activeSection
           /\ isManualScrollRef' = isManualScrollRef
           /\ scrollTop' = scrollTop
           /\ timers' = timers
    ]_vars

\* C26 witness: a call with an unknown id returned early while the modal is
\* open and no override is in force
C26_Witness ==
  /\ open /\ ignoredClick = MissingId
  /\ ~isManualScrollRef /\ PendingOverrideTimers = {}
  /\ activeSection # "meta"

\* C27: the result of a card is set at most once, from null, and only while
\* the stopwatch has been started; once it is set it does not change, Start,
\* Pause/Resume and Stop do nothing, the stopwatch is not running, and the
\* card has appended one scenario run (none before the result is set)
C27_ResultSetOnceStopwatchStopped ==
  /\ [](cardResult # "NONE" => (~swRunning /\ cardRuns = 1))
  /\ [](cardResult = "NONE" => cardRuns = 0)
  /\ [][ /\ (cardResult # "NONE" /\ plannerDayKey' = plannerDayKey /\ cardRuns' >= cardRuns)
            => (cardResult' = cardResult /\ swRunning' = swRunning /\ swElapsed' = swElapsed
                  /\ Len(scenarioRuns') = Len(scenarioRuns))
         /\ (cardResult' # cardResult)
            => ( \/ (cardResult = "NONE" /\ cardResult' \in {"PASS", "FAIL"}
                       /\ (swElapsed > 0 \/ swRunning)
                       /\ Len(scenarioRuns') = Len(scenarioRuns) + 1
                       /\ scenarioRuns'[1].status = cardResult')
                 \/ (cardResult' = "NONE" /\ cardRuns' = 0) )
        ]_vars

\* C27 witness: the second card logged a FAIL after its stopwatch ran and was
\* paused, and the defect form has been closed
C27_Witness ==
  /\ cardResult = "FAIL" /\ swElapsed > 0 /\ ~swRunning
  /\ Len(scenarioRuns) = 2 /\ scenarioRuns[1].status = "FAIL"
  /\ ~showDefectForm

\* the positions of the page's tasks of its dayKey with the given status
TodaysWith(list, dayKey, status) ==
  { k \in 1..Len(list) : list[k].dayKey = dayKey /\ list[k].status = status }

\* the positions of the page's tasks of its dayKey
Todays(list, dayKey) == { k \in 1..Len(list) : list[k].dayKey = dayKey }

\* C28: markNextTaskComplete(status) turns the first PENDING task of the
\* page's day into DONE (PASS) or FAILED (FAIL), keeps every other task and
\* writes the list to storage; without a PENDING task of that day it changes
\* neither the page's list nor storage.  The number of the day's tasks on the
\* page stays the same, and pending + done + failed equals it
C28_MarksFirstPendingOnly ==
  /\ [][ \A status \in {"PASS", "FAIL"} :
          markNextTaskComplete(status)
          => LET pending == TodaysWith(plannerTasks, plannerDayKey, "PENDING")
             IN  IF pending = {}
                 THEN plannerTasks' = plannerTasks /\ tasks' = tasks
                 ELSE /\ Len(plannerTasks') = Len(plannerTasks)
                      /\ \A k \in 1..Len(plannerTasks) :
                            IF k \in pending /\ \A j \in pending : k <= j
                            THEN plannerTasks'[k] =
                                   [id |-> plannerTasks[k].id, title |-> plannerTasks[k].title,
                                    dayKey |-> plannerTasks[k].dayKey,
                                    status |-> IF status = "PASS" THEN "DONE" ELSE "FAILED"]
                            ELSE plannerTasks'[k] = plannerTasks[k]
                      /\ tasks' = plannerTasks'
                      /\ Cardinality(Todays(plannerTasks', plannerDayKey))
                           = Cardinality(Todays(plannerTasks, plannerDayKey))
        ]_vars
  /\ [](Cardinality(TodaysWith(plannerTasks, plannerDayKey, "PENDING"))
          + Cardinality(TodaysWith(plannerTasks, plannerDayKey, "DONE"))
          + Cardinality(TodaysWith(plannerTasks, plannerDayKey, "FAILED"))
        = Cardinality(Todays(plannerTasks, plannerDayKey)))

\* C28 witness: on the second day the page shows one failed and one done task
\* after a task of the day before that is still pending
C28_Witness ==
  /\ Len(plannerTasks) = 3 /\ tasks = plannerTasks
  /\ plannerTasks[1].dayKey # plannerDayKey /\ plannerTasks[1].status = "PENDING"
  /\ plannerTasks[2].status = "FAILED" /\ plannerTasks[3].status = "DONE"

\* the folders as a reader of storage finds them
StoredFolders == IF folderStore.present THEN folderStore.folders ELSE DefaultFolders

\* the position of the folder a call with folderId saves into, 0 when none
TargetPosition(folderId) ==
  LET wanted == IF folderId = "" THEN StoredFolders[1].id ELSE folderId
      at == { k \in 1..Len(StoredFolders) : StoredFolders[k].id = wanted }
  IN  IF at = {} THEN 0 ELSE CHOOSE k \in at : TRUE

\* C29: no folder holds two plans with the same id; a call that writes puts
\* the plan in place of the entry of the target folder with its id, or, when
\* there is none, at index 0 with the folder's plan count one higher, and
\* keeps the other folders; a call that does not write keeps storage
C29_PlanIdsUniqueReplaceOrPrepend ==
  /\ [](\A k \in 1..Len(StoredFolders) :
          \A i, j \in 1..Len(StoredFolders[k].plans) :
            i # j => StoredFolders[k].plans[i].id # StoredFolders[k].plans[j].id)
  /\ [][ \A plan \in TestPlans, folderId \in FolderIdInputs, writes \in BOOLEAN :
          saveTestPlanToFolder(plan, folderId, writes)
          => IF writes /\ TargetPosition(folderId) # 0
             THEN LET t == TargetPosition(folderId)
                      before == StoredFolders[t].plans
                      after == folderStore'.folders[t].plans
                      same == { i \in 1..Len(before) : before[i].id = plan.id }
                  IN  /\ folderStore'.present
                      /\ Len(folderStore'.folders) = Len(StoredFolders)
                      /\ \A k \in 1..Len(StoredFolders) :
                            k # t => folderStore'.folders[k] = StoredFolders[k]
                      /\ folderStore'.folders[t].id = StoredFolders[t].id
                      /\ IF same # {}
                         THEN /\ Len(after) = Len(before)
                              /\ \A i \in 1..Len(before) :
                                    after[i] = IF i \in same THEN plan ELSE before[i]
                         ELSE /\ Len(after) = Len(before) + 1
                              /\ after[1] = plan
                              /\ \A i \in 1..Len(before) : after[i + 1] = before[i]
             ELSE folderStore' = folderStore
        ]_vars

\* C29 witness: the last call replaced a plan and wrote; the first folder
\* holds two plans, the older one under its second name, and the second
\* folder holds a plan with the id of one of them
C29_Witness ==
  /\ lastSaveCall.made /\ lastSaveCall.replaced /\ lastSaveCall.wrote
  /\ folderStore.present
  /\ Len(folderStore.folders[1].plans) = 2
  /\ folderStore.folders[1].plans[2].name = "b"
  /\ Len(folderStore.folders[2].plans) = 1
  /\ folderStore.folders[2].plans[1].id = folderStore.folders[1].plans[2].id

\* C30: a call with a folder id that matches no stored folder returns false
\* and keeps the stored folders; a call without folder id returns true and
\* the plan is then stored in the first folder
C30_UnknownFolderRefusedDefaultIsFirst ==
  [][ \A plan \in TestPlans, folderId \in FolderIdInputs, writes \in BOOLEAN :
        saveTestPlanToFolder(plan, folderId, writes)
        => /\ (folderId # "" /\ TargetPosition(folderId) = 0)
              => (saveReturn' = "false" /\ folderStore' = folderStore)
           /\ folderId = ""
              => /\ saveReturn' = "true"
                 /\ folderStore'.present
                 /\ \E i \in 1..Len(folderStore'.folders[1].plans) :
                       folderStore'.folders[1].plans[i] = plan
    ]_vars

\* the sections whose days contain the day, by position
SectionsHolding(day) ==
  { k \in 1..Len(detailSections) : \E j \in 1..Len(detailSections[k]) : detailSections[k][j] = day }

\* C24: on a progress update the active section becomes the first section
\* whose days contain the new active marker; when no section contains it the
\* active section keeps its value and the active marker is still updated
C24_FirstHoldingSectionElseKept ==
  [][ \A v \in ProgressValues :
        DetailProgressChange(v)
        => /\ detailActiveDay' \in MarkersReached(v)
           /\ \A i \in MarkersReached(v) : i <= detailActiveDay'
           /\ IF SectionsHolding(detailActiveDay') = {}
              THEN detailActiveSection' = detailActiveSection
              ELSE /\ detailActiveSection' + 1 \in SectionsHolding(detailActiveDay')
                   /\ \A k \in SectionsHolding(detailActiveDay') : detailActiveSection' + 1 <= k
    ]_vars

\* C24 witness: marker 3 is active and in no section, and the active section
\* is still the one of marker 2
C24_Witness ==
  /\ screen = "detail"
  /\ detailActiveDay = 3 /\ SectionsHolding(3) = {}
  /\ detailActiveSection = 1 /\ Len(detailSections[2]) = 2

\* C25: after every progress update the active day is one of the days of the
\* active section, in TestExecutionDetailScreen and in TestPlannerHome
C25_ActiveDayInActiveSection ==
  /\ Includes(DETAIL_SECTIONS[detailActiveSection + 1], detailActiveDay)
  /\ Includes(SECTIONS[homeActiveSection + 1], homeActiveDay)

\* C25 witness: both screens have been scrolled, TestPlannerHome to the middle
\* of its fourth section
C25_Witness ==
  /\ screen = "home" /\ homeProgress = 58 /\ homeActiveDay = 3
  /\ Len(detailRun) > 0

\* a step that calls appendScenarioRun
AppendCall == runSelfTests \/ \E nextStatus \in {"PASS", "FAIL"} : stopAndLog(nextStatus)

\* C21: the stored scenario-run list holds at most 50 runs, and a call of
\* appendScenarioRun stores a list that is not shorter than the one stored
\* before, with the new run at its front
C21_AtMostFiftyRunsNeverShorter ==
  /\ [](Len(scenarioRuns) <= 50)
  /\ [][ AppendCall
          => /\ Len(scenarioRuns') >= Len(scenarioRuns)
             /\ Len(scenarioRuns') \in {Len(scenarioRuns), Len(scenarioRuns) + 1}
             /\ scenarioRuns'[1].id \in {TestRunId, clock'}
             /\ \A k \in 2..Len(scenarioRuns') : scenarioRuns'[k] = scenarioRuns[k - 1]
        ]_vars

\* C21 witness: the list is full, and the run a card logged, with the defect
\* linked to it, is the oldest one kept
C21_Witness ==
  /\ Len(scenarioRuns) = 50
  /\ scenarioRuns[50].id # TestRunId /\ scenarioRuns[50].defectId # 0
  /\ scenarioRuns[1].id = TestRunId

====
